---- MODULE Spec2Model ----
(***************************************************************************)
(* Model of the ephemeral dependency lifecycle manager of apikit_cli:      *)
(* the port allocator (find_free_port), the container registry             *)
(* (cache_/get_/clean_running_containers), the scoped provisioner          *)
(* (with_mongodb / with_redis) and the tests / start / stop verbs.         *)
(*                                                                         *)
(* Text is modelled as a sequence of one-character strings, so that the    *)
(* registry file's append/split round trip is computed, not assumed.       *)
(***************************************************************************)
EXTENDS Integers, Sequences, FiniteSets, TLC

VARIABLES
    file,        \* the registry file: [exists, text]
    hist,        \* log of the direct registry calls made so far (records)
    cmd,         \* verb being executed: "none", "tests", "start", "stop"
    pc,          \* position of the running verb
    exc,         \* exception propagating through the running verb ("none" if none)
    stack,       \* the with-scopes entered and not yet left (innermost last)
    launches,    \* container names given to `docker run -d`, in call order
    stops,       \* container names given to stop_docker_container, in call order
    bodyExit,    \* how the with-body was left: "none", "normal", "exception", "interrupt"
    killed,      \* the session's process was terminated by a signal it cannot handle
    nsess,       \* number of sessions started so far
    mongodb_container_name,
    redis_container_name,
    api_container_name,
    containers,  \* stop verb: names still to be stopped by the for loop
    recorded,    \* names written to the registry since it was last absent (history)
    atStart,     \* value of `recorded` when the running verb started (history)
    fp,          \* port allocator: the call's inputs, environment and result
    sh,          \* process runner: one execute_shell_command call and its outcome
    prov,        \* provisioner: one run_* / with_* call and the URL it gave
    comp,        \* composite command: its list, position and log of executed units
    chk,         \* env-check verb: the project directory, its position and report
    cfg,         \* configuration: apikit.ini, CONFIG and the position of the tool
    ver,         \* version comparison: the two versions and the answers
    st           \* start verb's port selection: arguments, environment, effects

vars == <<file, hist, cmd, pc, exc, stack, launches, stops, bodyExit,
          killed, nsess, mongodb_container_name, redis_container_name,
          api_container_name, containers, recorded, atStart, fp,
          sh, prov, comp, chk, cfg, ver, st>>

auxVars == <<sh, prov, comp, chk, cfg, ver, st>>

sessionVars == <<cmd, pc, exc, stack, launches, stops, bodyExit, killed,
                 nsess, mongodb_container_name, redis_container_name,
                 api_container_name, containers, recorded, atStart>>

(***************************************************************************)
(* Bounds                                                                  *)
(***************************************************************************)
MaxCalls == 4       \* direct registry calls in one behaviour
MaxSessions == 2    \* verbs run one after the other in one behaviour
MaxPort == 3        \* ports are 1..MaxPort

(***************************************************************************)
(* Text helpers                                                            *)
(***************************************************************************)
Comma == ","

Last(s) == s[Len(s)]

Front(s) == SubSeq(s, 1, Len(s) - 1)

Range(s) == {s[i] : i \in 1..Len(s)}

Count(s, x) == Cardinality({i \in 1..Len(s) : s[i] = x})

\* Python's str.split(','): the pieces between commas, empty pieces kept;
\* ''.split(',') is [''].
RECURSIVE Split(_)
Split(s) ==
    IF s = <<>> THEN << <<>> >>
    ELSE LET rest == Split(Tail(s)) IN
         IF Head(s) = Comma
         THEN << <<>> >> \o rest
         ELSE << <<Head(s)>> \o Head(rest) >> \o Tail(rest)

(***************************************************************************)
(* Container registry (CommandCLI.*_running_containers)                    *)
(***************************************************************************)
NoFile == [exists |-> FALSE, text |-> <<>>]

\* open(cache_file, 'a'); f.write(f',{container_name}').  `ok` is whether the
\* open/write succeeded; when it does not, the OSError propagates.
cache_running_containers(f, container_name, ok) ==
    IF ok
    THEN [raised |-> "none",
          file |-> [exists |-> TRUE, text |-> f.text \o <<Comma>> \o container_name]]
    ELSE [raised |-> "OSError", file |-> f]

\* Variant without the except clause: the missing file's error propagates.
get_running_containers_noexcept(f) ==
    IF f.exists
    THEN [raised |-> "none", value |-> Split(f.text)]
    ELSE [raised |-> "FileNotFoundError", value |-> <<>>]

\* try: open(...).read().split(',')   except Exception: return []
get_running_containers(f) ==
    IF f.exists
    THEN [raised |-> "none", value |-> Split(f.text)]
    ELSE [raised |-> "none", value |-> <<>>]

\* Variant without the except clause: removing a missing file raises.
clean_running_containers_noexcept(f) ==
    IF f.exists
    THEN [raised |-> "none", file |-> NoFile]
    ELSE [raised |-> "FileNotFoundError", file |-> f]

\* try: os.remove(cache_file)   except Exception: pass
clean_running_containers(f) ==
    [raised |-> "none", file |-> NoFile]

\* Names a caller of the registry API registers directly.
ApiNames == { <<"a">>, <<"b">>, <<"a", "b">> }

NoArg == <<>>

CallCache(n, ok) ==
    /\ cmd = "none"
    /\ Len(hist) < MaxCalls
    /\ LET r == cache_running_containers(file, n, ok) IN
       /\ file' = r.file
       /\ hist' = Append(hist, [op |-> "cache", arg |-> n, pre |-> file,
                                post |-> r.file, ret |-> <<>>, raised |-> r.raised])
       /\ recorded' = IF ok THEN Append(recorded, n) ELSE recorded
    /\ UNCHANGED <<cmd, pc, exc, stack, launches, stops, bodyExit, killed,
                   nsess, mongodb_container_name, redis_container_name,
                   api_container_name, containers, atStart, fp, auxVars>>

CallGet ==
    /\ cmd = "none"
    /\ Len(hist) < MaxCalls
    /\ LET r == get_running_containers(file) IN
       hist' = Append(hist, [op |-> "get", arg |-> NoArg, pre |-> file,
                             post |-> file, ret |-> r.value, raised |-> r.raised])
    /\ UNCHANGED <<file, sessionVars, fp, auxVars>>

CallClean ==
    /\ cmd = "none"
    /\ Len(hist) < MaxCalls
    /\ LET r == clean_running_containers(file) IN
       /\ file' = r.file
       /\ hist' = Append(hist, [op |-> "clean", arg |-> NoArg, pre |-> file,
                                post |-> r.file, ret |-> <<>>, raised |-> r.raised])
       /\ recorded' = IF r.raised = "none" THEN <<>> ELSE recorded
    /\ UNCHANGED <<cmd, pc, exc, stack, launches, stops, bodyExit, killed,
                   nsess, mongodb_container_name, redis_container_name,
                   api_container_name, containers, atStart, fp, auxVars>>

NoName == <<>>

NoFp == [called |-> FALSE]

\* Value of a component's variable while that component is not exercised.
Unused == [called |-> FALSE]

InitAux ==
    /\ sh = Unused
    /\ prov = Unused
    /\ comp = Unused
    /\ chk = Unused
    /\ cfg = Unused
    /\ ver = Unused
    /\ st = Unused

(***************************************************************************)
(* Process runner (CommandCLI.execute_shell_command)                       *)
(***************************************************************************)
MaxSecs == 2

timeout_secs_default == 30    \* timeout_secs: int = 30

\* Exit statuses of a finished process; negative: killed by that signal.
ExitCodes == {0, 1, 2, 127, 0 - 9}

Digit(d) == <<"0", "1", "2", "3", "4", "5", "6", "7", "8", "9">>[d + 1]

RECURSIVE StrNat(_)
StrNat(n) == IF n < 10 THEN <<Digit(n)>> ELSE Append(StrNat(n \div 10), Digit(n % 10))

\* Variant: the magnitude only.
StrUnsigned(n) == IF n < 0 THEN StrNat(0 - n) ELSE StrNat(n)

\* str(result.returncode)
Str(n) == IF n < 0 THEN <<"-">> \o StrNat(0 - n) ELSE StrNat(n)

\* 'error': result.returncode != 0
ErrorFlag(returncode) == returncode # 0

\* Variant: the timeout is always passed to subprocess.run.
TimeoutAlways(capture_output) == TRUE

\* timeout=timeout_secs if capture_output else None
TimeoutApplies(capture_output) == capture_output

\* class APIKitCLIException(Exception): __init__(self, msg, **kwargs): pass
\* The message stays in args (set by BaseException.__new__); the keyword
\* arguments are dropped.
APIKitCLIException(msg, kwargs) ==
    [type |-> "APIKitCLIException", msg |-> msg, kwargs |-> {}]

\* An exception raised by subprocess.run or by the operator's Ctrl-C.
Builtin(type) == [type |-> type, msg |-> "", kwargs |-> {}]

\* The external process: whether it could be spawned, whether the operator
\* interrupted the wait, how long it runs and the status it exits with.
Procs(durations) ==
    [spawned : {TRUE}, interrupted : {FALSE}, duration : durations, returncode : ExitCodes]
    \cup [spawned : {FALSE}, interrupted : {FALSE}, duration : {0}, returncode : {0}]
    \cup [spawned : {TRUE}, interrupted : {TRUE}, duration : {0}, returncode : {0}]

Returned(command_line, returncode) ==
    [raised |-> "none",
     exception |-> Builtin("none"),
     cmd |-> command_line,
     code |-> Str(returncode),
     error |-> ErrorFlag(returncode)]

Raised(e) ==
    [raised |-> IF e.type = "APIKitCLIException" THEN e.msg ELSE e.type,
     exception |-> e,
     cmd |-> "",
     code |-> <<>>,
     error |-> TRUE]

\* The body of the try block: subprocess.run, then the returncode test.
TryBody(command_line, p, raise_on_error, capture_output, timeout_secs) ==
    CASE ~p.spawned -> Raised(Builtin("FileNotFoundError"))
      [] p.interrupted -> Raised(Builtin("KeyboardInterrupt"))
      [] TimeoutApplies(capture_output) /\ p.duration > timeout_secs ->
             Raised(Builtin("TimeoutExpired"))
      [] p.returncode # 0 /\ raise_on_error ->
             Raised(APIKitCLIException("Shell error",
                        {"cmd", "shell_code", "shell_output", "shell_error"}))
      [] OTHER -> Returned(command_line, p.returncode)

\* The except clauses, tried in order.  KeyboardInterrupt is no Exception and
\* passes through all of them; the 'Shell error' raised inside the try block
\* is an Exception and is caught by the last one.
ExceptClauses(e) ==
    CASE e.type \in {"TimeoutError", "TimeoutExpired"} ->
             APIKitCLIException("Shell timeout", {"cmd"})
      [] e.type = "CalledProcessError" ->
             APIKitCLIException("Shell timeout", {"cmd", "code", "error"})
      [] e.type = "KeyboardInterrupt" -> e
      [] OTHER ->
             APIKitCLIException("Unknown shell error",
                 {"cmd", "exception", "error", "cwd"})

shell_command(command_line, p, raise_on_error, capture_output, timeout_secs) ==
    LET r == TryBody(command_line, p, raise_on_error, capture_output, timeout_secs) IN
    IF r.raised = "none" THEN r ELSE Raised(ExceptClauses(r.exception))

\* What the external process does: exits 0, exits non-zero, runs longer than
\* timeout_secs (and would then exit 0), cannot be spawned, or the operator
\* interrupts the tool while it waits for the process.
ProcBehaviours == {"exit0", "nonzero", "slow", "nospawn", "interrupted"}

ProcOf(proc) ==
    [spawned |-> proc # "nospawn",
     interrupted |-> proc = "interrupted",
     duration |-> IF proc = "slow" THEN timeout_secs_default + 1 ELSE 0,
     returncode |-> IF proc = "nonzero" THEN 1 ELSE 0]

\* A call with the default timeout_secs, as every caller in the tool makes.
execute_shell_command(proc, raise_on_error, capture_output) ==
    shell_command("docker", ProcOf(proc), raise_on_error, capture_output,
                  timeout_secs_default)

CommandLines == {"echo hello", "sleep 9"}

ShInputs ==
    [called : {FALSE},
     command_line : CommandLines,
     proc : Procs(0..MaxSecs),
     raise_on_error : BOOLEAN,
     capture_output : BOOLEAN,
     timeout_secs : 1..MaxSecs]

\* One call of execute_shell_command.
ExecuteShellCommand ==
    /\ ~sh.called
    /\ sh' = [sh EXCEPT !.called = TRUE] @@
             [result |-> shell_command(sh.command_line, sh.proc, sh.raise_on_error,
                                       sh.capture_output, sh.timeout_secs)]
    /\ UNCHANGED <<file, hist, sessionVars, fp, ver, st, prov, comp, chk, cfg>>

(***************************************************************************)
(* Ephemeral service provisioner                                           *)
(***************************************************************************)
Suffixes == {"1", "2"}     \* values of random_suffix()

\* f'{app}_tests_mongodb_{sfx}', f'{app}_dev_redis_{sfx}', f'{app}_api_{sfx}'
TestsMongoName(sfx) == <<"t", "m", sfx>>
TestsRedisName(sfx) == <<"t", "r", sfx>>
DevMongoName(sfx) == <<"d", "m", sfx>>
DevRedisName(sfx) == <<"d", "r", sfx>>
ApiName(sfx) == <<"p", sfx>>

\* run_mongodb / run_redis: execute_shell_command(cmd, capture_output=True)
run_container(proc) == execute_shell_command(proc, FALSE, TRUE)

\* stop_docker_container: execute_shell_command('docker stop -t 3 ...', capture_output=True)
stop_docker_container(proc) == execute_shell_command(proc, FALSE, TRUE)

\* docker_run(...): execute_shell_command(cmd, capture_output=False)
docker_run(proc) == execute_shell_command(proc, FALSE, FALSE)

\* Variant without try/finally: the stop runs only after a normal exit.
with_exit_no_finally(e) == IF e = "none" THEN "stop" ELSE "propagate"

\* with_mongodb: try: yield ... finally: stop_docker_container(name)
with_mongodb_exit(e) == "stop"

\* with_redis: try: yield ... finally: stop_docker_container(name)
with_redis_exit(e) == "stop"

\* Variant leaving the scopes in acquisition order.
LeaveOutermostFirst(stk) == [name |-> Head(stk), rest |-> Tail(stk)]

\* `with A as a, B as b:` leaves the scopes innermost first.
LeaveScope(stk) == [name |-> Last(stk), rest |-> Front(stk)]

Verbs == {"tests", "start", "stop"}

\* The dispatcher builds the command and calls execute(); the container names
\* are the first thing TestsCommandCLI / StartCommandCLI.execute compute.
StartVerb(v, s1, s2) ==
    /\ cmd = "none"
    /\ nsess < MaxSessions
    /\ cmd' = v
    /\ nsess' = nsess + 1
    /\ atStart' = recorded
    /\ pc' = IF v = "stop" THEN "stop_get" ELSE "run_mongodb"
    /\ mongodb_container_name' =
         CASE v = "tests" -> TestsMongoName(s1)
           [] v = "start" -> DevMongoName(s1)
           [] OTHER -> NoName
    /\ redis_container_name' =
         CASE v = "tests" -> TestsRedisName(s2)
           [] v = "start" -> DevRedisName(s2)
           [] OTHER -> NoName
    /\ UNCHANGED <<file, hist, exc, stack, launches, stops, bodyExit, killed,
                   api_container_name, containers, recorded, fp, auxVars>>

ServiceName(svc) ==
    IF svc = "mongodb" THEN mongodb_container_name ELSE redis_container_name

\* Variant: the scope is entered only once the launch has succeeded, as if
\* run_* were called before the try block.
EnterScopeAfterLaunch(stk, scope, raised) ==
    IF raised = "none" THEN Append(stk, scope) ELSE stk

\* with_*: `yield self.run_*(...)` stands inside the try block, so the finally
\* clause is armed before the launch is attempted.
EnterScope(stk, scope, raised) == Append(stk, scope)

\* with_*: enter the try block; run_*: launch the container detached.
Launch(svc) ==
    /\ cmd \in {"tests", "start"}
    /\ pc = (IF svc = "mongodb" THEN "run_mongodb" ELSE "run_redis")
    /\ \E proc \in ProcBehaviours :
         LET n == ServiceName(svc)
             r == run_container(proc) IN
         /\ stack' = EnterScope(stack, [svc |-> svc, name |-> n], r.raised)
         /\ launches' = Append(launches, n)
         /\ IF r.raised = "none"
            THEN /\ pc' = (IF svc = "mongodb" THEN "cache_mongodb" ELSE "cache_redis")
                 /\ exc' = exc
            ELSE /\ pc' = "unwind"
                 /\ exc' = r.raised
    /\ UNCHANGED <<file, hist, cmd, stops, bodyExit, killed, nsess,
                   mongodb_container_name, redis_container_name,
                   api_container_name, containers, recorded, atStart, fp, auxVars>>

\* run_*: self.cache_running_containers(container_name), then return the URL.
Register(svc, ok) ==
    /\ cmd \in {"tests", "start"}
    /\ pc = (IF svc = "mongodb" THEN "cache_mongodb" ELSE "cache_redis")
    /\ LET n == ServiceName(svc)
           r == cache_running_containers(file, n, ok) IN
       /\ file' = r.file
       /\ recorded' = IF r.raised = "none" THEN Append(recorded, n) ELSE recorded
       /\ IF r.raised = "none"
          THEN /\ pc' = CASE svc = "mongodb" -> "run_redis"
                          [] cmd = "start" -> "cache_api"
                          [] OTHER -> "docker_run"
               /\ exc' = exc
          ELSE /\ pc' = "unwind"
               /\ exc' = r.raised
    /\ UNCHANGED <<hist, cmd, stack, launches, stops, bodyExit, killed, nsess,
                   mongodb_container_name, redis_container_name,
                   api_container_name, containers, atStart, fp, auxVars>>

\* StartCommandCLI.execute: name the API container and register it.
RegisterApi(sfx, ok) ==
    /\ cmd = "start"
    /\ pc = "cache_api"
    /\ LET n == ApiName(sfx)
           r == cache_running_containers(file, n, ok) IN
       /\ api_container_name' = n
       /\ file' = r.file
       /\ recorded' = IF r.raised = "none" THEN Append(recorded, n) ELSE recorded
       /\ IF r.raised = "none"
          THEN /\ pc' = "docker_run"
               /\ UNCHANGED <<exc, bodyExit>>
          ELSE /\ pc' = "unwind"
               /\ exc' = r.raised
               /\ bodyExit' = "exception"
    /\ UNCHANGED <<hist, cmd, stack, launches, stops, killed, nsess,
                   mongodb_container_name, redis_container_name,
                   containers, atStart, fp, auxVars>>

\* docker_run: the foreground container is started (or the runtime cannot be
\* spawned, and the error propagates out of the with-body).
BodyStart(spawns) ==
    /\ cmd \in {"tests", "start"}
    /\ pc = "docker_run"
    /\ IF spawns
       THEN /\ pc' = "docker_wait"
            /\ UNCHANGED <<exc, bodyExit>>
       ELSE /\ pc' = "unwind"
            /\ exc' = docker_run("nospawn").raised
            /\ bodyExit' = "exception"
    /\ UNCHANGED <<file, hist, cmd, stack, launches, stops, killed, nsess,
                   mongodb_container_name, redis_container_name,
                   api_container_name, containers, recorded, atStart, fp, auxVars>>

\* docker_run returns (the foreground container exited) or is interrupted.
BodyFinish(proc) ==
    /\ cmd \in {"tests", "start"}
    /\ pc = "docker_wait"
    /\ proc # "nospawn"
    /\ LET r == docker_run(proc) IN
       /\ exc' = r.raised
       /\ bodyExit' = CASE r.raised = "none" -> "normal"
                        [] r.raised = "KeyboardInterrupt" -> "interrupt"
                        [] OTHER -> "exception"
    /\ pc' = "unwind"
    /\ UNCHANGED <<file, hist, cmd, stack, launches, stops, killed, nsess,
                   mongodb_container_name, redis_container_name,
                   api_container_name, containers, recorded, atStart, fp, auxVars>>

ScopeExit(svc, e) ==
    IF svc = "mongodb" THEN with_mongodb_exit(e) ELSE with_redis_exit(e)

\* Leaving one with-scope: its finally clause stops the container; an error of
\* the stop replaces the one that was propagating.
Unwind ==
    /\ cmd \in {"tests", "start"}
    /\ pc = "unwind"
    /\ stack # <<>>
    /\ LET top == LeaveScope(stack) IN
       /\ stack' = top.rest
       /\ pc' = IF top.rest = <<>> THEN "done" ELSE "unwind"
       /\ IF ScopeExit(top.name.svc, exc) = "stop"
          THEN \E proc \in ProcBehaviours :
                 LET r == stop_docker_container(proc) IN
                 /\ stops' = Append(stops, top.name.name)
                 /\ exc' = IF r.raised = "none" THEN exc ELSE r.raised
          ELSE UNCHANGED <<stops, exc>>
    /\ UNCHANGED <<file, hist, cmd, launches, bodyExit, killed, nsess,
                   mongodb_container_name, redis_container_name,
                   api_container_name, containers, recorded, atStart, fp, auxVars>>

\* StopCommandCLI.execute: for container in self.get_running_containers()
StopGet ==
    /\ cmd = "stop"
    /\ pc = "stop_get"
    /\ LET r == get_running_containers(file) IN
       IF r.raised = "none"
       THEN /\ containers' = r.value
            /\ pc' = "stop_loop"
            /\ exc' = exc
       ELSE /\ containers' = containers
            /\ pc' = "done"
            /\ exc' = r.raised
    /\ UNCHANGED <<file, hist, cmd, stack, launches, stops, bodyExit, killed,
                   nsess, mongodb_container_name, redis_container_name,
                   api_container_name, recorded, atStart, fp, auxVars>>

\* StopCommandCLI.execute: self.stop_docker_container(container)
StopLoop ==
    /\ cmd = "stop"
    /\ pc = "stop_loop"
    /\ containers # <<>>
    /\ \E proc \in ProcBehaviours :
         LET n == Head(containers)
             r == stop_docker_container(proc) IN
         /\ stops' = Append(stops, n)
         /\ IF r.raised = "none"
            THEN /\ containers' = Tail(containers)
                 /\ UNCHANGED <<pc, exc>>
            ELSE /\ pc' = "done"
                 /\ exc' = r.raised
                 /\ UNCHANGED containers
    /\ UNCHANGED <<file, hist, cmd, stack, launches, bodyExit, killed, nsess,
                   mongodb_container_name, redis_container_name,
                   api_container_name, recorded, atStart, fp, auxVars>>

\* StopCommandCLI.execute: self.clean_running_containers()
StopClean ==
    /\ cmd = "stop"
    /\ pc = "stop_loop"
    /\ containers = <<>>
    /\ LET r == clean_running_containers(file) IN
       /\ file' = r.file
       /\ exc' = r.raised
       /\ recorded' = IF r.raised = "none" THEN <<>> ELSE recorded
    /\ pc' = "done"
    /\ UNCHANGED <<hist, cmd, stack, launches, stops, bodyExit, killed,
                   nsess, mongodb_container_name, redis_container_name,
                   api_container_name, containers, atStart, fp, auxVars>>

\* The tool's process is terminated by a signal it does not handle (SIGKILL,
\* SIGTERM): no finally clause runs; the registry file stays as it is.
Kill ==
    /\ cmd # "none"
    /\ pc # "done"
    /\ killed' = TRUE
    /\ pc' = "done"
    /\ UNCHANGED <<file, hist, cmd, exc, stack, launches, stops, bodyExit,
                   nsess, mongodb_container_name, redis_container_name,
                   api_container_name, containers, recorded, atStart, fp, auxVars>>

\* The process has ended; the operator is back at the prompt.
Finish ==
    /\ cmd # "none"
    /\ pc = "done"
    /\ cmd' = "none"
    /\ pc' = "idle"
    /\ exc' = "none"
    /\ stack' = <<>>
    /\ launches' = <<>>
    /\ stops' = <<>>
    /\ bodyExit' = "none"
    /\ killed' = FALSE
    /\ mongodb_container_name' = NoName
    /\ redis_container_name' = NoName
    /\ api_container_name' = NoName
    /\ containers' = <<>>
    /\ UNCHANGED <<file, hist, nsess, recorded, atStart, fp, auxVars>>

(***************************************************************************)
(* Port allocator (find_free_port)                                         *)
(***************************************************************************)
Ports == 1..MaxPort

\* s.connect_ex(('localhost', port)): 0 when something listens on the port.
connect_ex(port, occupied) == IF port \in occupied THEN 0 ELSE 1

\* Variant with the comparison inverted.
PortIsFreeInverted(rc) == rc = 0

\* if s.connect_ex(('localhost', port)) != 0: return port
PortIsFree(rc) == rc # 0

\* Variant enumerating the range from its upper end.
DescendingRange(start, end) == [i \in 1..(IF end >= start THEN end - start + 1 ELSE 0)
                                  |-> end - i + 1]

\* list(range(start, end + 1))
AscendingRange(start, end) == [i \in 1..(IF end >= start THEN end - start + 1 ELSE 0)
                                 |-> start + i - 1]

Shuffles(seq) ==
    { p \in [1..Len(seq) -> Range(seq)] : \A i, j \in 1..Len(seq) : p[i] = p[j] => i = j }

\* the candidate list after the optional random.shuffle(ports)
ProbeOrders(start, end, shuffle) ==
    IF shuffle THEN Shuffles(AscendingRange(start, end))
    ELSE {AscendingRange(start, end)}

\* for port in ports: probe, return the first port whose connect fails
RECURSIVE ProbeAll(_, _, _)
ProbeAll(ports, occupied, probed) ==
    IF ports = <<>> THEN [found |-> FALSE, port |-> 0, probes |-> probed]
    ELSE LET rc == connect_ex(Head(ports), occupied)
             seen == Append(probed, [port |-> Head(ports), rc |-> rc]) IN
         IF PortIsFree(rc)
         THEN [found |-> TRUE, port |-> Head(ports), probes |-> seen]
         ELSE ProbeAll(Tail(ports), occupied, seen)

\* s.bind(('', 0)): the OS hands out any port nobody uses; none left: OSError
EphemeralChoices(occupied) == Ports \ occupied

\* find_free_port with the probe order and the OS's choice made explicit;
\* osport = 0 stands for "the OS has no port to give".
find_free_port(order, occupied, osport) ==
    LET r == ProbeAll(order, occupied, <<>>) IN
    CASE r.found -> [raised |-> "none", port |-> r.port, probes |-> r.probes,
                     fallback |-> FALSE]
      [] osport = 0 -> [raised |-> "OSError", port |-> 0, probes |-> r.probes,
                        fallback |-> TRUE]
      [] OTHER -> [raised |-> "none", port |-> osport, probes |-> r.probes,
                   fallback |-> TRUE]

FpInputs ==
    [called : {FALSE}, start : Ports, end : Ports, shuffle : BOOLEAN,
     occupied : SUBSET Ports]

FindFreePortCall ==
    /\ ~fp.called
    /\ \E order \in ProbeOrders(fp.start, fp.end, fp.shuffle),
          osport \in (IF EphemeralChoices(fp.occupied) = {} THEN {0}
                      ELSE EphemeralChoices(fp.occupied)) :
         fp' = [called |-> TRUE, start |-> fp.start, end |-> fp.end,
                shuffle |-> fp.shuffle, occupied |-> fp.occupied,
                result |-> find_free_port(order, fp.occupied, osport)]
    /\ UNCHANGED <<file, hist, sessionVars, auxVars>>

(***************************************************************************)
(* Provisioner URLs (run_mongodb / run_redis / with_mongodb / with_redis)  *)
(***************************************************************************)
MongoPort == 27017    \* the port mongod listens on inside its container

RedisPort == 6379     \* the port redis listens on inside its container

\* Variant asking for host networking.
network_host_requested == TRUE

\* def run_mongodb(self, container_name, storage_folder='', network_host=False)
\* and run_redis(self, container_name, network_host=False): the default the
\* scoped forms rely on, since they pass no network_host.
network_host_default == FALSE

\* run_mongodb: `-p {port}:27017` and the returned URL
run_mongodb(port, network_host) ==
    [published |-> [host |-> port, container |-> MongoPort],
     url |-> IF network_host
             THEN [scheme |-> "mongodb", host |-> "localhost", port |-> MongoPort,
                   path |-> ""]
             ELSE [scheme |-> "mongodb", host |-> "host.docker.internal", port |-> port,
                   path |-> ""]]

\* run_redis: `-p {port}:6379` and the returned URL
run_redis(port, network_host) ==
    [published |-> [host |-> port, container |-> RedisPort],
     url |-> IF network_host
             THEN [scheme |-> "redis", host |-> "localhost", port |-> RedisPort,
                   path |-> "/0"]
             ELSE [scheme |-> "redis", host |-> "host.docker.internal", port |-> port,
                   path |-> "/0"]]

\* with_mongodb: yield self.run_mongodb(container_name, storage_folder)
with_mongodb(port) == run_mongodb(port, network_host_default)

\* with_redis: yield self.run_redis(container_name)
with_redis(port) == run_redis(port, network_host_default)

\* docker_run: the network option of the launched container
DockerNetwork(host_network) ==
    IF host_network THEN "--network host"
    ELSE "--add-host=host.docker.internal:host-gateway"

\* TestsCommandCLI / StartCommandCLI: docker_run(..., host_network=False,
\* MONGODB_URI=mongodb_url, REDIS_URL=redis_url)
ApiLaunch(mongodb_url, redis_url) ==
    [network |-> DockerNetwork(FALSE), MONGODB_URI |-> mongodb_url,
     REDIS_URL |-> redis_url]

\* find_free_port(shuffle=True) over the default range, here all of Ports;
\* the set of ports it can return (0: the socket layer raised).
ShuffledFreePorts(occupied) ==
    { find_free_port(order, occupied, osport).port :
        order \in ProbeOrders(1, MaxPort, TRUE),
        osport \in (IF EphemeralChoices(occupied) = {} THEN {0}
                    ELSE EphemeralChoices(occupied)) }

ProvInputs == [called : {FALSE}, occupied : SUBSET Ports]

\* A direct call of run_mongodb / run_redis with either network mode.
RunDirect(fn, container_name, network_host) ==
    /\ ~prov.called
    /\ \E port \in ShuffledFreePorts(prov.occupied) \ {0} :
         prov' = [called |-> TRUE, kind |-> "direct", fn |-> fn,
                  container_name |-> container_name,
                  network_host |-> network_host, occupied |-> prov.occupied,
                  port |-> port,
                  result |-> IF fn = "run_mongodb" THEN run_mongodb(port, network_host)
                             ELSE run_redis(port, network_host)]
    /\ UNCHANGED <<file, hist, sessionVars, fp, ver, st, sh, comp, chk, cfg>>

\* The provisioning of the tests / start verbs: database scope, cache scope,
\* then the API container is launched with the two URLs.
RunScoped(verb, s1, s2) ==
    /\ ~prov.called
    /\ \E p1 \in ShuffledFreePorts(prov.occupied) \ {0} :
       \E p2 \in ShuffledFreePorts(prov.occupied \cup {p1}) \ {0} :
         LET m == with_mongodb(p1)
             r == with_redis(p2) IN
         prov' = [called |-> TRUE, kind |-> "scoped", verb |-> verb,
                  occupied |-> prov.occupied,
                  mongodb |-> [container_name |-> IF verb = "tests" THEN TestsMongoName(s1)
                                                  ELSE DevMongoName(s1),
                               port |-> p1, result |-> m],
                  redis |-> [container_name |-> IF verb = "tests" THEN TestsRedisName(s2)
                                                ELSE DevRedisName(s2),
                             port |-> p2, result |-> r],
                  api |-> ApiLaunch(m.url, r.url)]
    /\ UNCHANGED <<file, hist, sessionVars, fp, ver, st, sh, comp, chk, cfg>>

InitSession ==
    /\ cmd = "none"
    /\ pc = "idle"
    /\ exc = "none"
    /\ stack = <<>>
    /\ launches = <<>>
    /\ stops = <<>>
    /\ bodyExit = "none"
    /\ killed = FALSE
    /\ nsess = 0
    /\ mongodb_container_name = NoName
    /\ redis_container_name = NoName
    /\ api_container_name = NoName
    /\ containers = <<>>
    /\ recorded = <<>>
    /\ atStart = <<>>

InitRegistry ==
    /\ file = NoFile
    /\ hist = <<>>
    /\ InitSession
    /\ fp = NoFp
    /\ InitAux

NextRegistry ==
    \/ \E n \in ApiNames, ok \in BOOLEAN : CallCache(n, ok)
    \/ CallGet
    \/ CallClean

SpecRegistry == InitRegistry /\ [][NextRegistry]_vars

InitPort ==
    /\ file = NoFile
    /\ hist = <<>>
    /\ InitSession
    /\ fp \in FpInputs
    /\ InitAux

NextPort == FindFreePortCall

SpecPort == InitPort /\ [][NextPort]_vars

(***************************************************************************)
(* Composite commands (CommandCLIComposite)                                *)
(***************************************************************************)
\* CICommandCLI.commands and the TestComposite of test_base_command
CompositeCommands ==
    { <<"format", "lint", "compile", "build", "tests">>, <<"version", "version">> }

\* latest_version: urllib.request.urlopen either answers or raises URLError;
\* the operator may interrupt the wait.
latest_version_outcomes ==
    { [raised |-> "none", error |-> FALSE],
      [raised |-> "URLError", error |-> TRUE],
      [raised |-> "KeyboardInterrupt", error |-> TRUE] }

Outcome(r) == [raised |-> r.raised, error |-> r.error]

\* What COMMANDS[ref]().execute() can do: return (the process having failed
\* or not) or raise.
SubCommandOutcomes(ref) ==
    CASE ref \in {"format", "lint", "compile"} ->
             { Outcome(docker_run(p)) : p \in ProcBehaviours }
      [] ref = "build" ->
             { Outcome(execute_shell_command(p, FALSE, FALSE)) : p \in ProcBehaviours }
      [] ref = "tests" ->
             { Outcome(run_container(p)) : p \in ProcBehaviours }
             \cup { Outcome(docker_run(p)) : p \in ProcBehaviours }
      [] OTHER -> latest_version_outcomes

CompInputs ==
    [commands : CompositeCommands, i : {1}, ran : {<<>>}, failed : {<<>>},
     exc : {"none"}, done : {FALSE}]

\* for ref in self.__class__.commands: an exception leaves the loop.
NextIndex(i, raised) == IF raised = "none" THEN i + 1 ELSE i

\* One iteration: cmd = COMMANDS[ref](); cmd.execute()
CompositeIteration ==
    /\ ~comp.done
    /\ comp.i <= Len(comp.commands)
    /\ \E o \in SubCommandOutcomes(comp.commands[comp.i]) :
         comp' = [comp EXCEPT !.ran = Append(@, comp.commands[comp.i]),
                              !.failed = Append(@, o.error),
                              !.i = NextIndex(@, o.raised),
                              !.exc = IF o.raised # "none" /\ comp.exc = "none"
                                      THEN o.raised ELSE @,
                              !.done = NextIndex(comp.i, o.raised) = comp.i]
    /\ UNCHANGED <<file, hist, sessionVars, fp, ver, st, sh, prov, chk, cfg>>

\* The loop is exhausted and execute returns.
CompositeReturn ==
    /\ ~comp.done
    /\ comp.i > Len(comp.commands)
    /\ comp' = [comp EXCEPT !.done = TRUE]
    /\ UNCHANGED <<file, hist, sessionVars, fp, ver, st, sh, prov, chk, cfg>>

InitComposite ==
    /\ file = NoFile
    /\ hist = <<>>
    /\ InitSession
    /\ fp = NoFp
    /\ ver = Unused
    /\ st = Unused
    /\ sh = Unused
    /\ prov = Unused
    /\ comp \in CompInputs
    /\ chk = Unused
    /\ cfg = Unused

NextComposite ==
    \/ CompositeIteration
    \/ CompositeReturn

SpecComposite == InitComposite /\ [][NextComposite]_vars

(***************************************************************************)
(* Dispatcher and env-check verb                                           *)
(***************************************************************************)
\* __main__: try: cmd.execute() except KeyboardInterrupt: pass.  There is no
\* sys.exit: the status is 0 when execute returns or is interrupted, and the
\* interpreter's 1 when another exception reaches the top.
DispatchExit(raised) == IF raised \in {"none", "KeyboardInterrupt"} THEN 0 ELSE 1

\* The environment the check verb looks at.
ChkInputs ==
    [called : {FALSE},
     docker : ProcBehaviours,
     Dockerfile : BOOLEAN,
     requirements : BOOLEAN,
     apps : BOOLEAN,
     latest : latest_version_outcomes,
     outdated : BOOLEAN]

\* CheckCommandCLI.execute as far as it gets: the lines it prints, the checks
\* it evaluated and the exception that ended it, if any.
CheckExecute(in) ==
    LET output == execute_shell_command(in.docker, FALSE, FALSE)
        l1 == IF output.error THEN <<"Docker not found or it is not running.">> ELSE <<>>
        l2 == IF ~in.Dockerfile THEN <<"Dockerfile is required.">> ELSE <<>>
        l3 == IF ~in.requirements THEN <<"requirements-app.txt is recommended.">> ELSE <<>>
        l4 == IF ~in.apps THEN <<"apps dir is required.">> ELSE <<>>
        l5 == IF in.outdated THEN <<"APIKit CLI is out to date.">> ELSE <<>>
        error == output.error \/ ~in.Dockerfile \/ ~in.apps
    IN  IF output.raised # "none"
        THEN [raised |-> output.raised, lines |-> <<>>, evaluated |-> <<"docker">>]
        ELSE IF in.latest.raised # "none"
        THEN [raised |-> in.latest.raised, lines |-> l1 \o l2 \o l3 \o l4,
              evaluated |-> <<"docker", "Dockerfile", "requirements", "apps", "version">>]
        ELSE [raised |-> "none",
              lines |-> l1 \o l2 \o l3 \o l4 \o l5
                        \o (IF error THEN <<"Env is not OK.">> ELSE <<"Env is OK.">>),
              evaluated |-> <<"docker", "Dockerfile", "requirements", "apps", "version">>]

\* `apikit check`: dispatch of CheckCommandCLI and the process's exit status.
CheckVerb ==
    /\ ~chk.called
    /\ LET r == CheckExecute(chk) IN
       chk' = [chk EXCEPT !.called = TRUE] @@
              [result |-> r, exit |-> DispatchExit(r.raised)]
    /\ UNCHANGED <<file, hist, sessionVars, fp, ver, st, sh, prov, comp, cfg>>

InitCheck ==
    /\ file = NoFile
    /\ hist = <<>>
    /\ InitSession
    /\ fp = NoFp
    /\ ver = Unused
    /\ st = Unused
    /\ sh = Unused
    /\ prov = Unused
    /\ comp = Unused
    /\ chk \in ChkInputs
    /\ cfg = Unused

NextCheck == CheckVerb

SpecCheck == InitCheck /\ [][NextCheck]_vars

(***************************************************************************)
(* Configuration (get_app_config, save_config, the start verb's update)    *)
(***************************************************************************)
\* Text is a sequence of pieces; a port number is rendered by Str.
default_port == 33333     \* config.setdefault('port', '33333')

repo_root == <<"apikit_cli">>     \* find_repo_root()

ApiUrl(port) == <<"http://localhost:">> \o port

AdminUrl(api_url) == <<"http://localhost:9001/auth/signin?api=">> \o api_url

UrlText(u) == <<u.scheme, "://", u.host, ":">> \o Str(u.port) \o <<u.path>>

EmptyDict == [k \in {} |-> <<>>]

\* dict.setdefault
setdefault(config, k, v) == IF k \in DOMAIN config THEN config ELSE config @@ (k :> v)

\* dict item assignment
setitem(config, k, v) == [x \in DOMAIN config \cup {k} |-> IF x = k THEN v ELSE config[x]]

\* apikit.ini: missing, without an [apikit] section, or with one.  The parser
\* splits each line at its first delimiter, so a value is kept whole.
IniSections ==
    UNION { [K -> {<<"x">>}] : K \in SUBSET {"app", "docker_image", "api_url", "admin_url"} }

IniPorts == { EmptyDict } \cup { ("port" :> Str(n)) : n \in {MaxPort, default_port} }

IniFiles ==
    { [status |-> "missing", section |-> EmptyDict],
      [status |-> "no section", section |-> EmptyDict] }
    \cup { [status |-> "ok", section |-> s @@ q] : s \in IniSections, q \in IniPorts }

\* parser.read('apikit.ini'); config = dict(parser['apikit']); a missing file
\* or section raises KeyError, which is caught: config = {}.
read_ini(ini) == IF ini.status = "ok" THEN ini.section ELSE EmptyDict

get_app_config(ini) ==
    LET c0 == read_ini(ini)
        c1 == setdefault(c0, "app", repo_root)
        c2 == setdefault(c1, "port", Str(default_port))
        c3 == setdefault(c2, "docker_image", c1["app"] \o <<":dev">>)
        c4 == setdefault(c3, "token", <<>>)
        c5 == setdefault(c4, "autoupdate", <<"1">>)
        c6 == setdefault(c5, "api_url", ApiUrl(c5["port"]))
        c7 == setdefault(c6, "admin_url", AdminUrl(c6["api_url"]))
    IN  c7

\* save_config: parser['apikit'] = CONFIG; parser.write(f)
save_config(config) == [status |-> "ok", section |-> config]

\* Variant: the start verb records the port and leaves the URLs alone.
start_config_port_only(config, port, mongodb_url, redis_url) ==
    setitem(config, "port", Str(port))

\* StartCommandCLI.execute: CONFIG['port'] = port ... CONFIG['token'] = ...
start_config(config, port, mongodb_url, redis_url) ==
    LET c1 == setitem(config, "port", Str(port))
        c2 == setitem(c1, "api_url", ApiUrl(Str(port)))
        c3 == setitem(c2, "admin_url", AdminUrl(c2["api_url"]))
        c4 == setitem(c3, "mongodb_url", mongodb_url)
        c5 == setitem(c4, "mongodb_db", config["app"] \o <<"_dev">>)
        c6 == setitem(c5, "redis_url", redis_url)
        c7 == setitem(c6, "token", <<"token_hex">>)
    IN  c7

CfgInputs ==
    [loaded : {FALSE}, ini : IniFiles, user : IniFiles, CONFIG : {EmptyDict},
     started : {FALSE}, port : {0}]

\* Process start: CONFIG = get_app_config()
LoadConfig ==
    /\ ~cfg.loaded
    /\ cfg' = [cfg EXCEPT !.loaded = TRUE, !.CONFIG = get_app_config(cfg.ini)]
    /\ UNCHANGED <<file, hist, sessionVars, fp, ver, st, sh, prov, comp, chk>>

\* The start verb inside its two scopes: the port given or found, the
\* configuration updated and saved.
StartConfig(port) ==
    /\ cfg.loaded
    /\ LET c == start_config(cfg.CONFIG, port, UrlText(with_mongodb(1).url),
                             UrlText(with_redis(2).url)) IN
       cfg' = [cfg EXCEPT !.CONFIG = c, !.ini = save_config(c),
                          !.started = TRUE, !.port = port]
    /\ UNCHANGED <<file, hist, sessionVars, fp, ver, st, sh, prov, comp, chk>>

\* The process ends; the next invocation reads the file again.
ExitProcess ==
    /\ cfg.loaded
    /\ cfg' = [cfg EXCEPT !.loaded = FALSE, !.CONFIG = EmptyDict]
    /\ UNCHANGED <<file, hist, sessionVars, fp, ver, st, sh, prov, comp, chk>>

InitConfig ==
    /\ file = NoFile
    /\ hist = <<>>
    /\ InitSession
    /\ fp = NoFp
    /\ ver = Unused
    /\ st = Unused
    /\ sh = Unused
    /\ prov = Unused
    /\ comp = Unused
    /\ chk = Unused
    /\ cfg \in CfgInputs
    /\ cfg.user = cfg.ini

NextConfig ==
    \/ LoadConfig
    \/ \E port \in Ports \cup {default_port} : StartConfig(port)
    \/ ExitProcess

SpecConfig == InitConfig /\ [][NextConfig]_vars

(***************************************************************************)
(* Version comparison (version_lower_than)                                 *)
(***************************************************************************)
MaxVerLen == 3

Dot == "."

VerChars == {"0", "1", "9", Dot}

\* Version texts of up to MaxVerLen characters, well formed or not.
Versions == UNION { [1..n -> VerChars] : n \in 1..MaxVerLen }

\* v.split('.'): the pieces between dots, empty pieces kept.
RECURSIVE SplitDots(_)
SplitDots(s) ==
    IF s = <<>> THEN << <<>> >>
    ELSE LET rest == SplitDots(Tail(s)) IN
         IF Head(s) = Dot
         THEN << <<>> >> \o rest
         ELSE << <<Head(s)>> \o Head(rest) >> \o Tail(rest)

\* int(p) for a piece made of digits; int('') raises ValueError.
RECURSIVE int(_)
int(t) ==
    IF Len(t) = 1 THEN CHOOSE d \in 0..9 : Digit(d) = t[1]
    ELSE 10 * int(SubSeq(t, 1, Len(t) - 1)) + int(<<t[Len(t)]>>)

Max(a, b) == IF a >= b THEN a ELSE b

\* Variant: the shorter list is left as it is.
PadNone(parts, length) == parts

\* parts += [0] * (length - len(parts))
Pad(parts, length) == parts \o [i \in 1..(length - Len(parts)) |-> 0]

\* Python's `<` on lists of ints.
RECURSIVE ListLess(_, _)
ListLess(a, b) ==
    CASE b = <<>> -> FALSE
      [] a = <<>> -> TRUE
      [] Head(a) # Head(b) -> Head(a) < Head(b)
      [] OTHER -> ListLess(Tail(a), Tail(b))

version_lower_than(v1, v2) ==
    LET s1 == SplitDots(v1)
        s2 == SplitDots(v2)
    IN  IF \E i \in 1..Len(s1) : s1[i] = <<>>
        THEN [raised |-> "ValueError", value |-> FALSE]
        ELSE IF \E i \in 1..Len(s2) : s2[i] = <<>>
        THEN [raised |-> "ValueError", value |-> FALSE]
        ELSE LET parts1 == [i \in 1..Len(s1) |-> int(s1[i])]
                 parts2 == [i \in 1..Len(s2) |-> int(s2[i])]
                 length == Max(Len(parts1), Len(parts2))
             IN  [raised |-> "none",
                  value |-> ListLess(Pad(parts1, length), Pad(parts2, length))]

VerInputs == [called : {FALSE}, v1 : Versions, v2 : Versions]

\* The comparison asked both ways round.
VersionLowerThanCall ==
    /\ ~ver.called
    /\ ver' = [ver EXCEPT !.called = TRUE] @@
              [lt |-> version_lower_than(ver.v1, ver.v2),
               gt |-> version_lower_than(ver.v2, ver.v1)]
    /\ UNCHANGED <<file, hist, sessionVars, fp, st, sh, prov, comp, chk, cfg>>

InitVersion ==
    /\ file = NoFile
    /\ hist = <<>>
    /\ InitSession
    /\ fp = NoFp
    /\ ver \in VerInputs
    /\ st = Unused
    /\ sh = Unused
    /\ prov = Unused
    /\ comp = Unused
    /\ chk = Unused
    /\ cfg = Unused

NextVersion == VersionLowerThanCall

SpecVersion == InitVersion /\ [][NextVersion]_vars

(***************************************************************************)
(* Port selection of the start verb                                        *)
(***************************************************************************)
end_default == 33299          \* find_free_port(..., end: int = 33299, ...)

argparse_port_default == 33333   \* add_argument('--port', type=int, default=33333)

\* The ports looked at: the last MaxPort ports of the default probe range and
\* MaxPort ports from the default configured port upwards.
StartPorts ==
    ((end_default - MaxPort + 1)..end_default)
    \cup (default_port..(default_port + MaxPort - 1))

\* How the verb is invoked: through the command line, with or without
\* --port, or by constructing StartCommandCLI() without arguments.
Invocations ==
    { [via |-> "cli", given |-> FALSE, value |-> 0],
      [via |-> "direct", given |-> FALSE, value |-> 0] }
    \cup { [via |-> "cli", given |-> TRUE, value |-> p] : p \in StartPorts }

\* parser.parse_args(); CommandCLIClass(**vars(args)): cli_args
cli_args(inv) ==
    CASE inv.via = "direct" -> EmptyDict
      [] inv.given -> ("port" :> inv.value)
      [] OTHER -> ("port" :> argparse_port_default)

\* str(self.cli_args.get('port', ''))
PortArgText(args) == IF "port" \in DOMAIN args THEN Str(args["port"]) ELSE <<>>

\* apikit.ini as far as the port goes: absent, or naming one of the ports.
StartIniFiles ==
    { [status |-> "missing", section |-> EmptyDict] }
    \cup { [status |-> "ok", section |-> ("port" :> Str(p))] :
             p \in {end_default - 1, end_default, default_port} }

StInputs ==
    [called : {FALSE}, inv : Invocations, ini : StartIniFiles,
     occupied : SUBSET StartPorts]

\* StartCommandCLI.execute from `port = ...` to the launch of the API
\* container: the port, the CONFIG update, save_config, docker_run.
StartPortSelection(inv, ini, occupied, osport) ==
    LET CONFIG0 == get_app_config(ini)
        text == PortArgText(cli_args(inv))
        found == find_free_port(AscendingRange(int(CONFIG0["port"]), end_default),
                                occupied, osport)
    IN  IF text = <<>> /\ found.raised # "none"
        THEN [raised |-> found.raised, port |-> <<>>, probed |-> TRUE,
              CONFIG |-> CONFIG0, ini |-> ini, steps |-> <<>>,
              port_mapping |-> [host |-> <<>>, container |-> <<>>], uvicorn_port |-> <<>>]
        ELSE LET port == IF text = <<>> THEN Str(found.port) ELSE text
                 c == start_config(CONFIG0, int(port), UrlText(with_mongodb(1).url),
                                   UrlText(with_redis(2).url))
             IN  [raised |-> "none", port |-> port, probed |-> text = <<>>,
                  CONFIG |-> c, ini |-> save_config(c),
                  steps |-> <<"save_config", "docker_run">>,
                  port_mapping |-> [host |-> port, container |-> port],
                  uvicorn_port |-> port]

StartPortCall ==
    /\ ~st.called
    /\ \E osport \in (IF StartPorts \ st.occupied = {} THEN {0}
                      ELSE StartPorts \ st.occupied) :
         st' = [st EXCEPT !.called = TRUE] @@
               [result |-> StartPortSelection(st.inv, st.ini, st.occupied, osport)]
    /\ UNCHANGED <<file, hist, sessionVars, fp, ver, sh, prov, comp, chk, cfg>>

InitStart ==
    /\ file = NoFile
    /\ hist = <<>>
    /\ InitSession
    /\ fp = NoFp
    /\ ver = Unused
    /\ st \in StInputs
    /\ sh = Unused
    /\ prov = Unused
    /\ comp = Unused
    /\ chk = Unused
    /\ cfg = Unused

NextStart == StartPortCall

SpecStart == InitStart /\ [][NextStart]_vars

InitShell ==
    /\ file = NoFile
    /\ hist = <<>>
    /\ InitSession
    /\ fp = NoFp
    /\ ver = Unused
    /\ st = Unused
    /\ sh \in ShInputs
    /\ prov = Unused
    /\ comp = Unused
    /\ chk = Unused
    /\ cfg = Unused

NextShell == ExecuteShellCommand

SpecShell == InitShell /\ [][NextShell]_vars

InitProvision ==
    /\ file = NoFile
    /\ hist = <<>>
    /\ InitSession
    /\ fp = NoFp
    /\ ver = Unused
    /\ st = Unused
    /\ sh = Unused
    /\ prov \in ProvInputs
    /\ comp = Unused
    /\ chk = Unused
    /\ cfg = Unused

NextProvision ==
    \/ \E fn \in {"run_mongodb", "run_redis"}, sfx \in Suffixes, nh \in BOOLEAN :
         RunDirect(fn, IF fn = "run_mongodb" THEN DevMongoName(sfx) ELSE DevRedisName(sfx), nh)
    \/ \E verb \in {"tests", "start"}, s1, s2 \in Suffixes : RunScoped(verb, s1, s2)

SpecProvision == InitProvision /\ [][NextProvision]_vars

Init ==
    /\ file = NoFile
    /\ hist = <<>>
    /\ InitSession
    /\ fp = NoFp
    /\ InitAux

Next ==
    \/ \E v \in Verbs, s1 \in Suffixes, s2 \in Suffixes : StartVerb(v, s1, s2)
    \/ \E svc \in {"mongodb", "redis"} : Launch(svc)
    \/ \E svc \in {"mongodb", "redis"}, ok \in BOOLEAN : Register(svc, ok)
    \/ \E sfx \in Suffixes, ok \in BOOLEAN : RegisterApi(sfx, ok)
    \/ \E spawns \in BOOLEAN : BodyStart(spawns)
    \/ \E proc \in ProcBehaviours : BodyFinish(proc)
    \/ Unwind
    \/ StopGet
    \/ StopLoop
    \/ StopClean
    \/ Kill
    \/ Finish

Spec == Init /\ [][Next]_vars

(***************************************************************************)
(* Properties                                                              *)
(***************************************************************************)
Provisioning == cmd \in {"tests", "start"}

\* The verb's process ended by itself: execute() returned or its exception
\* reached the dispatcher.
Ended == pc = "done" /\ ~killed

BodyPcs == {"cache_api", "docker_run", "docker_wait"}

RegistryNames == Range(get_running_containers(file).value)

PendingScopes == {stack[i].name : i \in 1..Len(stack)}

\* C1: once a scoped acquisition has been left, whichever way its body was
\* left (normal return, exception, interrupt), stop_docker_container has been
\* invoked for each provisioned container: as many stops as launches.
C1_StopOnEveryExitPath ==
    (Provisioning /\ Ended /\ bodyExit # "none") =>
        /\ Len(stops) = Len(launches)
        /\ \A n \in Range(launches) : Count(stops, n) = Count(launches, n)
        /\ {mongodb_container_name, redis_container_name} \subseteq Range(stops)

C1_Witness ==
    /\ cmd = "tests"
    /\ Ended
    /\ bodyExit = "interrupt"
    /\ Len(launches) = 2
    /\ Len(stops) = 2

\* C2: with the database scope entered first and the cache scope second, the
\* cache container is stopped before the database container, on the normal
\* and on the exceptional exit of the body.
C2_TeardownInReverseOrder ==
    (Provisioning /\ Ended /\ bodyExit # "none") =>
        stops = <<redis_container_name, mongodb_container_name>>

C2_Witness ==
    /\ cmd = "start"
    /\ Ended
    /\ bodyExit = "exception"
    /\ launches = <<mongodb_container_name, redis_container_name>>
    /\ stops = <<redis_container_name, mongodb_container_name>>

\* C3: from an absent registry file, cache(n1); cache(n2); get returns
\* exactly <<n1, n2>>.
C3_GetReturnsExactlyTheTwoNames ==
    \A i \in 1..(Len(hist) - 2) :
        ( /\ hist[i].op = "cache" /\ ~hist[i].pre.exists /\ hist[i].raised = "none"
          /\ hist[i + 1].op = "cache" /\ hist[i + 1].raised = "none"
          /\ hist[i + 2].op = "get" )
        => hist[i + 2].ret = <<hist[i].arg, hist[i + 1].arg>>

\* Names registered before call i and not erased by a clean since.
LiveNames(i) ==
    { hist[j].arg : j \in { k \in 1..(i - 1) :
          /\ hist[k].op = "cache"
          /\ hist[k].raised = "none"
          /\ \A c \in (k + 1)..(i - 1) : hist[c].op # "clean" } }

\* C4: every element get_running_containers returns was passed to an earlier
\* cache_running_containers call not since erased by clean_running_containers.
C4_GetReturnsOnlyRegisteredNames ==
    \A i \in 1..Len(hist) :
        hist[i].op = "get" => Range(hist[i].ret) \subseteq LiveNames(i)

\* C5: get_running_containers with no prior cache_running_containers call
\* (registry file absent) returns the empty list and does not raise.
C5_GetOnAbsentFileIsEmpty ==
    \A i \in 1..Len(hist) :
        ( /\ hist[i].op = "get"
          /\ ~hist[i].pre.exists
          /\ \A j \in 1..(i - 1) : hist[j].op # "cache" )
        => hist[i].ret = <<>> /\ hist[i].raised = "none"

C5_Witness ==
    /\ Len(hist) >= 1
    /\ hist[1].op = "get"
    /\ ~hist[1].pre.exists
    /\ hist[1].ret = <<>>

\* C6: clean_running_containers never raises, with or without a registry
\* file; a second clean changes nothing; and a get right after a clean
\* returns the empty list however many names were registered before.
C6_CleanIsIdempotentAndEmpties ==
    \A i \in 1..Len(hist) :
        hist[i].op = "clean" =>
            /\ hist[i].raised = "none"
            /\ ~hist[i].post.exists
            /\ (i < Len(hist) /\ hist[i + 1].op = "clean")
                   => hist[i + 1].post = hist[i].post /\ hist[i + 1].raised = "none"
            /\ (i < Len(hist) /\ hist[i + 1].op = "get")
                   => hist[i + 1].ret = <<>> /\ hist[i + 1].raised = "none"

C6_Witness ==
    /\ Len(hist) = 4
    /\ hist[1].op = "cache" /\ hist[1].raised = "none"
    /\ hist[2].op = "clean" /\ hist[2].pre.exists
    /\ hist[3].op = "clean" /\ ~hist[3].pre.exists
    /\ hist[4].op = "get" /\ hist[4].ret = <<>>

\* C7: the container name is in the registry before the URL is handed to the
\* caller, and no launched container is at once unregistered, not yet given
\* to stop_docker_container and outside every scope still to be left (also
\* when the registration itself failed).
C7_RegisteredBeforeUrlNoUntracked ==
    (Provisioning /\ ~killed) =>
        /\ pc \in ({"run_redis", "cache_redis"} \cup BodyPcs)
               => mongodb_container_name \in RegistryNames
        /\ pc \in BodyPcs => redis_container_name \in RegistryNames
        /\ \A n \in Range(launches) :
               \/ n \in RegistryNames
               \/ n \in PendingScopes
               \/ n \in Range(stops)

C7_Witness ==
    /\ Provisioning
    /\ Ended
    /\ exc = "OSError"
    /\ launches = <<mongodb_container_name, redis_container_name>>
    /\ redis_container_name \notin RegistryNames
    /\ redis_container_name \in Range(stops)

\* C8: the stop verb invokes stop_docker_container for exactly the names the
\* registry recorded, and afterwards the registry file is gone and
\* get_running_containers returns the empty list.
C8_StopVerbStopsExactlyTheRecorded ==
    (cmd = "stop" /\ Ended) =>
        /\ Range(stops) = Range(atStart)
        /\ ~file.exists
        /\ get_running_containers(file).value = <<>>

\* C9: after a tests or start session that shut down cleanly (scopes left,
\* containers stopped, no error) the registry file has been deleted.
C9_RegistryDeletedOnCleanShutdown ==
    (Provisioning /\ Ended /\ bodyExit = "normal" /\ exc = "none"
        /\ stops = <<redis_container_name, mongodb_container_name>>)
    => ~file.exists

RangeOf(start, end) == start..end

LastProbe == Last(fp.result.probes)

PortInRangeAndObservedFree ==
    /\ fp.result.raised = "none"
    /\ fp.result.port \in RangeOf(fp.start, fp.end)
    /\ fp.result.probes # <<>>
    /\ LastProbe.port = fp.result.port
    /\ LastProbe.rc # 0
    /\ fp.result.port \notin fp.occupied

\* C10 as stated: for all start <= end, both shuffle values and every set of
\* occupied ports, the returned port lies in [start, end] and the probe made
\* immediately before returning found it unoccupied.
C10_Original ==
    (fp.called /\ fp.start <= fp.end) => PortInRangeAndObservedFree

\* C10 amended: the same, for every set of occupied ports that leaves at
\* least one port of [start, end] unoccupied.
C10_PortInRangeWhenSomePortFree ==
    ( /\ fp.called
      /\ fp.start <= fp.end
      /\ RangeOf(fp.start, fp.end) \ fp.occupied # {} )
    => PortInRangeAndObservedFree

C10_Witness ==
    /\ fp.called
    /\ fp.shuffle
    /\ fp.start < fp.end
    /\ RangeOf(fp.start, fp.end) \cap fp.occupied # {}
    /\ Len(fp.result.probes) >= 2
    /\ fp.result.port > fp.start
    /\ PortInRangeAndObservedFree

FreeInRange == RangeOf(fp.start, fp.end) \ fp.occupied

Lowest(S) == CHOOSE x \in S : \A y \in S : x <= y

\* C11: the candidates are probed in order and the first one whose connect
\* fails is returned: the lowest unoccupied port of [start, end] without
\* shuffle, some unoccupied port of the range with shuffle; the bind-to-0
\* fallback is taken exactly when the range has no unoccupied port.
C11_FirstFreeInOrderElseFallback ==
    fp.called =>
        LET r == fp.result IN
        /\ r.fallback <=> (FreeInRange = {})
        /\ \A i \in 1..(Len(r.probes) - 1) :
               r.probes[i].rc = 0 /\ r.probes[i].port \in fp.occupied
        /\ \A i, j \in 1..Len(r.probes) :
               r.probes[i].port = r.probes[j].port => i = j
        /\ ~fp.shuffle => \A i \in 1..Len(r.probes) : r.probes[i].port = fp.start + i - 1
        /\ ~r.fallback =>
               /\ r.raised = "none"
               /\ r.port \in FreeInRange
               /\ LastProbe.port = r.port /\ LastProbe.rc # 0
               /\ ~fp.shuffle => r.port = Lowest(FreeInRange)
        /\ r.fallback =>
               /\ {r.probes[i].port : i \in 1..Len(r.probes)} = RangeOf(fp.start, fp.end)
               /\ \A i \in 1..Len(r.probes) : r.probes[i].rc = 0
               /\ r.raised = "none" => r.port \in EphemeralChoices(fp.occupied)

C11_Witness ==
    /\ fp.called
    /\ fp.start < fp.end
    /\ fp.result.fallback
    /\ fp.result.raised = "none"
    /\ Len(fp.result.probes) = fp.end - fp.start + 1
    /\ fp.result.port \notin RangeOf(fp.start, fp.end)

BridgeHost == "host.docker.internal"

\* C12: the URL of run_mongodb / run_redis names localhost when host
\* networking is requested and host.docker.internal otherwise; the scoped
\* forms yield the bridge-mode URLs, and these are what the API container,
\* launched with the host alias, is given.
C12_UrlHostFollowsNetworkMode ==
    prov.called =>
        /\ prov.kind = "direct" =>
               prov.result.url.host = (IF prov.network_host THEN "localhost" ELSE BridgeHost)
        /\ prov.kind = "scoped" =>
               /\ prov.mongodb.result.url.host = BridgeHost
               /\ prov.redis.result.url.host = BridgeHost
               /\ prov.api.MONGODB_URI = prov.mongodb.result.url
               /\ prov.api.REDIS_URL = prov.redis.result.url
               /\ prov.api.network = "--add-host=host.docker.internal:host-gateway"

C12_Witness ==
    /\ prov.called
    /\ prov.kind = "scoped"
    /\ prov.verb = "start"
    /\ prov.api.MONGODB_URI.host = BridgeHost
    /\ prov.api.REDIS_URL.host = BridgeHost
    /\ prov.api.MONGODB_URI.port # prov.api.REDIS_URL.port

ShellErrors == {"Shell timeout", "Shell error", "Unknown shell error"}

\* C13: stop_docker_container is best-effort: whatever the stop command does
\* (non-zero exit, timeout, runtime cannot be spawned) no shell error reaches
\* the stop verb, which goes through every registered container and then
\* deletes the registry.
C13_StopSwallowsShellErrors ==
    /\ cmd = "stop" => exc \notin ShellErrors
    /\ (cmd = "stop" /\ Ended /\ exc = "none") => ~file.exists
    /\ (cmd = "stop" /\ Ended /\ exc \in ShellErrors) =>
           /\ containers = <<>>
           /\ ~file.exists

ShTimedOut == sh.capture_output /\ sh.proc.duration > sh.timeout_secs

ShFailureKind ==
    CASE ~sh.proc.spawned -> "Unknown shell error"
      [] ShTimedOut -> "Shell timeout"
      [] sh.proc.returncode # 0 /\ sh.raise_on_error -> "Shell error"
      [] OTHER -> "none"

\* C14: execute_shell_command raises a timeout as 'Shell timeout', a non-zero
\* exit under raise_on_error as 'Shell error' and a spawn failure as 'Unknown
\* shell error', never one kind under the label of another, and each raised
\* error carries the command text.
C14_ThreeDistinctErrorKinds ==
    (sh.called /\ ~sh.proc.interrupted) =>
        /\ sh.result.raised = ShFailureKind
        /\ sh.result.raised \in ShellErrors => "cmd" \in sh.result.exception.kwargs

ShFinished ==
    /\ sh.called
    /\ sh.proc.spawned
    /\ ~sh.proc.interrupted
    /\ ~ShTimedOut

DigitChars == {"0", "1", "2", "3", "4", "5", "6", "7", "8", "9"}

DigitValue(c) == CHOOSE d \in 0..9 : Digit(d) = c

RECURSIVE NatOf(_)
NatOf(t) == IF t = <<>> THEN 0 ELSE 10 * NatOf(Front(t)) + DigitValue(Last(t))

\* t is the decimal numeral of n: digits only after an optional minus sign,
\* no leading zero, and the value read back is n.
IsDecimalOf(t, n) ==
    LET digits == IF t # <<>> /\ Head(t) = "-" THEN Tail(t) ELSE t IN
    /\ digits # <<>>
    /\ \A i \in 1..Len(digits) : digits[i] \in DigitChars
    /\ Len(digits) > 1 => digits[1] # "0"
    /\ (Head(t) = "-") <=> (n < 0)
    /\ NatOf(digits) = (IF n < 0 THEN 0 - n ELSE n)

\* C15: with raise_on_error false, a spawned and finished process never makes
\* execute_shell_command raise; the result's error flag is true exactly when
\* the exit code is not 0 and its code field is the decimal string of the exit
\* code (exit 0 gives error = FALSE and code = "0").
C15_NonZeroExitReportedNotRaised ==
    (ShFinished /\ ~sh.raise_on_error) =>
        /\ sh.result.raised = "none"
        /\ sh.result.error <=> (sh.proc.returncode # 0)
        /\ IsDecimalOf(sh.result.code, sh.proc.returncode)
        /\ sh.proc.returncode = 0 => (~sh.result.error /\ sh.result.code = <<"0">>)

C15_Witness ==
    /\ ShFinished
    /\ ~sh.raise_on_error
    /\ sh.proc.returncode = 127
    /\ sh.result.error
    /\ sh.result.code = <<"1", "2", "7">>

\* C16: the timeout is enforced only under capture_output: a process running
\* longer than timeout_secs then raises 'Shell timeout', not 'Unknown shell
\* error'; without capture_output no timeout applies and the call gives what
\* the process gives when it ends.
C16_TimeoutOnlyWhenCapturing ==
    (sh.called /\ sh.proc.spawned /\ ~sh.proc.interrupted
        /\ sh.proc.duration > sh.timeout_secs) =>
        /\ sh.capture_output => sh.result.raised = "Shell timeout"
        /\ ~sh.capture_output =>
               /\ sh.result.raised # "Shell timeout"
               /\ (sh.proc.returncode = 0 \/ ~sh.raise_on_error) =>
                      /\ sh.result.raised = "none"
                      /\ sh.result.error <=> (sh.proc.returncode # 0)

C16_Witness ==
    /\ sh.called
    /\ sh.proc.spawned
    /\ sh.proc.duration > sh.timeout_secs
    /\ ~sh.capture_output
    /\ sh.proc.returncode = 0
    /\ sh.result.raised = "none"

\* C17: a composite command runs each listed sub-command exactly once, in
\* list order, and every one of them runs even when an earlier one failed or
\* its execute raised an error.
C17_CompositeRunsEverySubCommand ==
    /\ \A k \in 1..Len(comp.ran) : comp.ran[k] = comp.commands[k]
    /\ (comp.done /\ comp.exc # "KeyboardInterrupt") => comp.ran = comp.commands

RuntimeReachable == chk.docker \in {"exit0", "slow"}

\* C18: the env-check verb reports a failure line naming the missing item
\* and exits non-zero when the Dockerfile or the apps directory is missing
\* or the container runtime is unreachable; it reports success and exits 0
\* when all of them are there; every check is evaluated even after an
\* earlier one failed.
C18_CheckVerbPassFail ==
    (chk.called /\ chk.docker # "interrupted" /\ chk.latest.raised # "KeyboardInterrupt") =>
        /\ ~chk.Dockerfile =>
               /\ "Dockerfile is required." \in Range(chk.result.lines)
               /\ chk.exit # 0
        /\ ~chk.apps =>
               /\ "apps dir is required." \in Range(chk.result.lines)
               /\ chk.exit # 0
        /\ ~RuntimeReachable =>
               /\ "Docker not found or it is not running." \in Range(chk.result.lines)
               /\ chk.exit # 0
        /\ (chk.Dockerfile /\ chk.apps /\ RuntimeReachable) =>
               /\ "Env is OK." \in Range(chk.result.lines)
               /\ chk.exit = 0
        /\ chk.result.evaluated = <<"docker", "Dockerfile", "requirements", "apps", "version">>

\* C19: an operator interrupt arriving while the body of a tests / start
\* verb runs is caught by the dispatcher, so the process does not end with an
\* error, and the stop calls of the scopes it unwinds through have run by
\* then, cache first.
C19_InterruptCaughtAfterScopeExits ==
    (Provisioning /\ Ended /\ bodyExit = "interrupt") =>
        /\ stops = <<redis_container_name, mongodb_container_name>>
        /\ DispatchExit(exc) = 0

UserKeys == DOMAIN read_ini(cfg.user)

\* C20: when the user's config file overrides neither api_url nor admin_url,
\* the loaded configuration has api_url = http://localhost:<port> and
\* admin_url = http://localhost:9001/auth/signin?api=<api_url>, with port
\* 33333 and docker_image <app>:dev when those keys are missing; this holds
\* right after get_app_config and after the start verb changed the port and
\* saved the configuration, which then holds the same values.
C20_UrlsDerivedFromPort ==
    (cfg.loaded /\ UserKeys \cap {"api_url", "admin_url"} = {}) =>
        LET c == cfg.CONFIG IN
        /\ c["api_url"] = <<"http://localhost:">> \o c["port"]
        /\ c["admin_url"] = <<"http://localhost:9001/auth/signin?api=">> \o c["api_url"]
        /\ (~cfg.started /\ "port" \notin UserKeys) =>
               c["port"] = <<"3", "3", "3", "3", "3">>
        /\ "docker_image" \notin UserKeys =>
               c["docker_image"] = c["app"] \o <<":dev">>
        /\ "app" \notin UserKeys => c["app"] = <<"apikit_cli">>
        /\ cfg.started =>
               /\ IsDecimalOf(c["port"], cfg.port)
               /\ cfg.ini.status = "ok"
               /\ \A k \in {"port", "api_url", "admin_url"} : cfg.ini.section[k] = c[k]

C20_Witness ==
    /\ cfg.loaded
    /\ cfg.started
    /\ cfg.user.status = "ok"
    /\ UserKeys = {"port"}
    /\ cfg.user.section["port"] # cfg.CONFIG["port"]
    /\ cfg.CONFIG["api_url"] = <<"http://localhost:", "1">>
    /\ cfg.ini.section["api_url"] = cfg.CONFIG["api_url"]

\* v is a dotted version: non-empty runs of digits separated by single dots.
WellFormed(v) ==
    /\ Head(v) # Dot
    /\ Last(v) # Dot
    /\ \A i \in 1..(Len(v) - 1) : ~(v[i] = Dot /\ v[i + 1] = Dot)

NumDots(v) == Cardinality({i \in 1..Len(v) : v[i] = Dot})

\* The text of the k-th component of a well-formed version.
ComponentText(v, k) ==
    LET idx == {i \in 1..Len(v) : Cardinality({j \in 1..i : v[j] = Dot}) = k - 1
                                  /\ v[i] # Dot} IN
    [i \in 1..Cardinality(idx) |-> v[Lowest(idx) + i - 1]]

\* The k-th component as a number, 0 beyond the last one (the padding).
Component(v, k) == IF k <= NumDots(v) + 1 THEN NatOf(ComponentText(v, k)) ELSE 0

\* The strict lexicographic order on the padded component lists.
StrictlyLower(v1, v2) ==
    \E k \in 1..MaxVerLen :
        /\ Component(v1, k) < Component(v2, k)
        /\ \A j \in 1..(k - 1) : Component(v1, j) = Component(v2, j)

SameAfterPadding(v1, v2) == \A k \in 1..MaxVerLen : Component(v1, k) = Component(v2, k)

\* C21: on dotted versions version_lower_than is the strict numeric
\* lexicographic order of the zero-padded component lists: false on equal
\* arguments, never true both ways, and true exactly one way for versions
\* that differ after padding.
C21_VersionOrderIsStrict ==
    (ver.called /\ WellFormed(ver.v1) /\ WellFormed(ver.v2)) =>
        /\ ver.lt.raised = "none" /\ ver.gt.raised = "none"
        /\ ver.lt.value <=> StrictlyLower(ver.v1, ver.v2)
        /\ ver.gt.value <=> StrictlyLower(ver.v2, ver.v1)
        /\ ver.v1 = ver.v2 => ~ver.lt.value
        /\ ~(ver.lt.value /\ ver.gt.value)
        /\ SameAfterPadding(ver.v1, ver.v2) => (~ver.lt.value /\ ~ver.gt.value)
        /\ ~SameAfterPadding(ver.v1, ver.v2) => (ver.lt.value # ver.gt.value)

C21_Witness ==
    /\ ver.called
    /\ ver.v1 = <<"9">>
    /\ ver.v2 = <<"1", "0">>
    /\ ver.lt.value
    /\ ~ver.gt.value

\* C22: the tests and start verbs never leak a container: whichever step
\* failed (database launch, cache launch or its registration, the wrapped
\* docker_run, the stop of the cache container), every container whose launch
\* was attempted has had stop_docker_container invoked on it once the verb
\* has returned or its exception has propagated.
C22_NoLeakAtAnyFailurePoint ==
    (Provisioning /\ Ended) =>
        /\ \A n \in Range(launches) : n \in Range(stops)
        /\ Len(stops) = Len(launches)

C22_Witness ==
    /\ cmd = "start"
    /\ Ended
    /\ bodyExit = "none"
    /\ exc = "Shell timeout"
    /\ launches = <<mongodb_container_name, redis_container_name>>
    /\ stops = <<redis_container_name, mongodb_container_name>>

\* C23: in both network modes the URL returned by run_mongodb / run_redis
\* names the host port that find_free_port allocated and that the launch
\* command published the service on, and no other port.
C23_UrlNamesThePublishedPort ==
    (prov.called /\ prov.kind = "direct") =>
        /\ prov.result.published.host = prov.port
        /\ prov.result.url.port = prov.result.published.host

ConfiguredPort ==
    IF st.ini.status = "ok" THEN NatOf(st.ini.section["port"]) ELSE 33333

FreeAtOrAbove == {p \in StartPorts : p >= ConfiguredPort /\ p \notin st.occupied}

\* C24: with a port override the API is started on exactly that port; with
\* none it is started on the lowest free port at or above the configured
\* port; either way that port is what CONFIG['port'] holds, what save_config
\* persisted before the API container was launched, and what the container's
\* port mapping uses.
C24_StartPortSelection ==
    (st.called /\ st.result.raised = "none") =>
        LET r == st.result IN
        /\ st.inv.given => IsDecimalOf(r.port, st.inv.value)
        /\ (~st.inv.given /\ FreeAtOrAbove # {}) =>
               IsDecimalOf(r.port, Lowest(FreeAtOrAbove))
        /\ r.CONFIG["port"] = r.port
        /\ r.ini.section["port"] = r.port
        /\ r.steps = <<"save_config", "docker_run">>
        /\ r.port_mapping = [host |-> r.port, container |-> r.port]

====
